---- MODULE Spec2Model ----
(***************************************************************************)
(* Session persistence and concurrency control of the device checker:      *)
(* the sessions table (version, advisory lock, soft delete), the HTTP      *)
(* handlers POST /api/sessions and GET/PATCH/DELETE /api/sessions/{id},    *)
(* and the client store and review page that drive them.                   *)
(*                                                                         *)
(* One session id is modelled.  Time is counted in minutes.  A handler     *)
(* that issues several SQL statements is one action per statement, since   *)
(* other requests run between its awaits.                                  *)
(***************************************************************************)
EXTENDS Integers, Sequences, FiniteSets, TLC

VARIABLES
  row,          \* the sessions-table row of the session, or NoRow
  nextId,       \* number of rows inserted so far (surrogate id source)
  now,          \* NOW() of the database, in minutes
  updates,      \* history: successful updateSession calls on the current row
  store,        \* per user: the client store (useAppStore)
  page,         \* per user: which page the browser tab shows
  hbStart,      \* per user: when the review page's heartbeat interval was (re)started
  patch,        \* per user: the PATCH or DELETE request in flight: "unlock",
                \* "refresh", "restore", "delete" or "none"
  req,          \* per connection (one per user, and one more for a save that
                \* overlaps the user's save in flight): the POST or GET request
                \* in flight, with the handler's locals
  blob,         \* the payload store's object at the session's path, or NoBlob
  logDown,      \* whether INSERT INTO session_activity_log currently fails
  reply,        \* HTTP status of the last response to a DELETE or a PATCH restore
  deletedCount, \* what cleanupOldDeletedSessions returned last, or NoCount
  savedDevices  \* history: the device array of the last create or update that succeeded

vars == <<row, nextId, now, updates, store, page, hbStart, patch, req,
          blob, logDown, reply, deletedCount, savedDevices>>

----------------------------------------------------------------------------
(* Bounds *)

MaxTime == 5
MaxVersion == 3
MaxDays == 15

(* Program constants *)

LockTtlMinutes == 5
HeartbeatMinutes == 1
RetentionDays == 14
MinutesPerDay == 1440

Users == {"alice", "bob"}

\* saveProgressToCloud has no guard against a save in flight: the autosave
\* tick, the Save button and the "s" shortcut each send a POST of their own.
\* Overlap is the connection of such a second save.
Overlap == "overlap"
Conns == Users \cup {Overlap}

NULL == "NULL"
NoTime == 0 - 1
NoVersion == 0
NoDevices == <<>>
NoBlob == <<"no blob">>
NoCount == 0 - 1
NoStatus == 0

\* The payload store's URL of sessions/{session_id}/devices.json
BlobUrl == "sessions/S/devices.json"

\* Batch numbers of the review page: batches hold 10 devices, so the device
\* arrays above make one batch
Batches == {1}

ReviewStatus == {"approved", "skipped"}

\* Device arrays a parsed CSV upload can yield (every status pending)
Uploads == {<<"pending">>}

\* Device arrays a request body can carry
DeviceArrays == {<<"pending">>, <<"approved", "skipped">>}
\* Positions of a device in those arrays
DeviceIndexes == UNION {1..Len(d) : d \in Uploads \cup DeviceArrays}

CompletedStatus == {"approved", "custom_selected", "rejected"}

----------------------------------------------------------------------------
(* The sessions table *)

NoRow == [id |-> 0]

deviceCount(devices) == Len(devices)

completedDeviceCount(devices) ==
  Cardinality({i \in 1..Len(devices) : devices[i] \in CompletedStatus})

\* session.current_batch || 1
currentBatchOrOne(session) ==
  IF session.current_batch = 0 THEN 1 ELSE session.current_batch

\* INSERT INTO sessions (...) VALUES (..., 1, deviceCount, completedDeviceCount).
\* With a blobUrl the device array is in the payload store and the devices
\* column stays empty; without one it is stored inline (rows of the earlier
\* schema).  created_at and updated_at default to NOW().
InsertedRow(id, session, blobUrl, t) ==
  [id |-> id,
   version |-> 1,
   devices |-> IF blobUrl = NULL THEN session.devices ELSE NoDevices,
   blob_url |-> blobUrl,
   device_count |-> deviceCount(session.devices),
   completed_device_count |-> completedDeviceCount(session.devices),
   current_batch |-> currentBatchOrOne(session),
   completed_batches |-> session.completed_batches,
   locked_by |-> NULL,
   locked_at |-> NoTime,
   deleted_at |-> NoTime,
   updated_at |-> t]

\* An update that leaves the counts of the previous save in place
UpdatedRow_StaleCounts(r, session, blobUrl, t) ==
  [r EXCEPT !.devices = IF blobUrl = NULL THEN session.devices ELSE @,
            !.blob_url = blobUrl,
            !.current_batch = currentBatchOrOne(session),
            !.completed_batches = session.completed_batches,
            !.version = r.version + 1,
            !.updated_at = t]

\* UPDATE sessions SET ..., version = version + 1; the trigger
\* update_sessions_updated_at stamps updated_at on every updated row
UpdatedRow(r, session, blobUrl, t) ==
  [r EXCEPT !.devices = IF blobUrl = NULL THEN session.devices ELSE @,
            !.blob_url = blobUrl,
            !.device_count = deviceCount(session.devices),
            !.completed_device_count = completedDeviceCount(session.devices),
            !.current_batch = currentBatchOrOne(session),
            !.completed_batches = session.completed_batches,
            !.version = r.version + 1,
            !.updated_at = t]

\* A conditional update that has lost its version test
VersionMatches_Unchecked(r, expectedVersion) ==
  r # NoRow

\* ... WHERE session_id = ? AND version = expectedVersion
VersionMatches(r, expectedVersion) ==
  r # NoRow /\ r.version = expectedVersion

\* A lock test whose interval is a minute short
LockedByOther_ShortTtl(r, userId, t) ==
  /\ r # NoRow
  /\ r.locked_by # NULL
  /\ r.locked_by # userId
  /\ r.locked_at > t - (LockTtlMinutes - 1)

\* A lock test that has lost its interval
LockedByOther_NoTtl(r, userId, t) ==
  /\ r # NoRow
  /\ r.locked_by # NULL
  /\ r.locked_by # userId

\* locked_by IS NOT NULL AND locked_by != userId AND locked_at > NOW() - INTERVAL '5 minutes'
LockedByOther(r, userId, t) ==
  /\ r # NoRow
  /\ r.locked_by # NULL
  /\ r.locked_by # userId
  /\ r.locked_at > t - LockTtlMinutes

\* A lock statement that also bumps the version
LockedRow_Versioned(r, userId, t) ==
  IF r = NoRow THEN r ELSE [r EXCEPT !.locked_by = userId, !.locked_at = t,
                                     !.version = @ + 1, !.updated_at = t]

\* UPDATE sessions SET locked_by = userId, locked_at = NOW() WHERE session_id = ?
LockedRow(r, userId, t) ==
  IF r = NoRow THEN r ELSE [r EXCEPT !.locked_by = userId, !.locked_at = t,
                                     !.updated_at = t]

\* An unlock statement that has lost its holder test
UnlockedRow_Anyone(r, userId, t) ==
  IF r # NoRow
    THEN [r EXCEPT !.locked_by = NULL, !.locked_at = NoTime, !.updated_at = t]
    ELSE r

\* An unlock statement that matches no row
UnlockedRow_Kept(r, userId, t) ==
  r

\* UPDATE sessions SET locked_by = NULL, locked_at = NULL WHERE ... AND locked_by = userId
UnlockedRow(r, userId, t) ==
  IF r # NoRow /\ r.locked_by = userId
    THEN [r EXCEPT !.locked_by = NULL, !.locked_at = NoTime, !.updated_at = t]
    ELSE r

\* UPDATE sessions SET locked_at = NOW() WHERE ... AND locked_by = userId
RefreshedRow(r, userId, t) ==
  IF r # NoRow /\ r.locked_by = userId
    THEN [r EXCEPT !.locked_at = t, !.updated_at = t]
    ELSE r

\* A soft delete that has lost its deleted_at IS NULL test
SoftDeletedRow_Restamp(r, t) ==
  IF r # NoRow
    THEN [r EXCEPT !.deleted_at = t, !.updated_at = t]
    ELSE r

\* UPDATE sessions SET deleted_at = NOW() WHERE ... AND deleted_at IS NULL
SoftDeletedRow(r, t) ==
  IF r # NoRow /\ r.deleted_at = NoTime
    THEN [r EXCEPT !.deleted_at = t, !.updated_at = t]
    ELSE r

\* A restore that puts the session back as a fresh one
RestoredRow_Fresh(r, t) ==
  IF r # NoRow /\ r.deleted_at # NoTime
    THEN [r EXCEPT !.deleted_at = NoTime, !.updated_at = t, !.version = 1]
    ELSE r

\* UPDATE sessions SET deleted_at = NULL WHERE ... AND deleted_at IS NOT NULL
RestoredRow(r, t) ==
  IF r # NoRow /\ r.deleted_at # NoTime
    THEN [r EXCEPT !.deleted_at = NoTime, !.updated_at = t]
    ELSE r

NoSession ==
  [_version |-> NoVersion, devices |-> NoDevices, current_batch |-> 0,
   completed_batches |-> <<>>, last_updated |-> NoTime, blob_url |-> NULL]

\* rowToSession: the devices column only when the row has no blob_url,
\* otherwise an empty array for the API layer to fill from the payload store
rowToSession(r) ==
  [_version |-> r.version,
   devices |-> IF r.blob_url = NULL THEN r.devices ELSE NoDevices,
   current_batch |-> r.current_batch,
   completed_batches |-> r.completed_batches,
   last_updated |-> r.updated_at,
   blob_url |-> r.blob_url]

\* SELECT * FROM sessions WHERE session_id = ? LIMIT 1, then rowToSession;
\* NoSession stands for the null it returns when there is no row
getSession(r) ==
  IF r = NoRow THEN NoSession ELSE rowToSession(r)

\* A row as the views session_summaries and deleted_sessions select it
summaryOf(r) ==
  [id |-> r.id, version |-> r.version, device_count |-> r.device_count,
   completed_device_count |-> r.completed_device_count,
   current_batch |-> r.current_batch, deleted_at |-> r.deleted_at]

\* The view as it was before soft delete: every row
session_summaries_Unfiltered(r) ==
  IF r # NoRow THEN {summaryOf(r)} ELSE {}

\* VIEW session_summaries: ... FROM sessions WHERE deleted_at IS NULL
session_summaries(r) ==
  IF r # NoRow /\ r.deleted_at = NoTime THEN {summaryOf(r)} ELSE {}

\* A count that takes a day off as soon as the day has begun
days_remaining_Begun(deleted_at, t) ==
  RetentionDays - ((t - deleted_at + MinutesPerDay - 1) \div MinutesPerDay)

\* 14 - EXTRACT(DAY FROM (NOW() - deleted_at))::INTEGER
days_remaining(deleted_at, t) ==
  RetentionDays - ((t - deleted_at) \div MinutesPerDay)

\* VIEW deleted_sessions: ..., days_remaining FROM sessions WHERE deleted_at IS NOT NULL
deleted_sessions(r, t) ==
  IF r # NoRow /\ r.deleted_at # NoTime
    THEN {[summary |-> summaryOf(r), days_remaining |-> days_remaining(r.deleted_at, t)]}
    ELSE {}

\* listSessions(undefined): SELECT * FROM session_summaries
listSessions(r) == session_summaries(r)

\* listDeletedSessions(undefined): SELECT * FROM deleted_sessions
listDeletedSessions(r, t) == deleted_sessions(r, t)

----------------------------------------------------------------------------
(* Requests and responses *)

NoResult ==
  [status |-> 0, action |-> NULL, version |-> NoVersion,
   currentVersion |-> NoVersion, attemptedVersion |-> NoVersion,
   lockedBy |-> NULL, lockedAt |-> NoTime, session |-> NoSession,
   lastSaved |-> NoTime]

Idle ==
  [op |-> "none", pc |-> "none", body |-> NoSession, existing |-> NoSession,
   rowId |-> 0, result |-> NoResult, dropped |-> FALSE, blobUrl |-> NULL]

InitialStore ==
  [session |-> NoSession, hasUnsavedChanges |-> FALSE,
   conflictError |-> NoResult]

Init ==
  /\ row = NoRow
  /\ nextId = 0
  /\ now = 0
  /\ updates = 0
  /\ store = [u \in Users |-> InitialStore]
  /\ page = [u \in Users |-> "home"]
  /\ hbStart = [u \in Users |-> NoTime]
  /\ patch = [u \in Users |-> "none"]
  /\ req = [c \in Conns |-> Idle]
  /\ blob = NoBlob
  /\ logDown = FALSE
  /\ reply = NoStatus
  /\ deletedCount = NoCount
  /\ savedDevices = NoDevices

----------------------------------------------------------------------------
(* Client store (useAppStore) *)

\* setSession: replaces the local session wholesale and resets the flags
setSession(session) ==
  [session |-> [session EXCEPT !._version = IF @ = NoVersion THEN 1 ELSE @],
   hasUnsavedChanges |-> FALSE,
   conflictError |-> NoResult]

\* updateDevice: new device array, new session object with last_updated =
\* new Date(), hasUnsavedChanges
updateDevice(st, deviceIndex, updates_status, t) ==
  [st EXCEPT !.session.devices[deviceIndex] = updates_status,
             !.session.last_updated = t,
             !.hasUnsavedChanges = TRUE]

\* setCurrentBatch: new session object with current_batch, hasUnsavedChanges
setCurrentBatch(st, batchNumber) ==
  [st EXCEPT !.session.current_batch = batchNumber,
             !.hasUnsavedChanges = TRUE]

\* markBatchComplete: pushes the batch if it is not included; new session
\* object with last_updated = new Date()
markBatchComplete(st, batchNumber, t) ==
  [st EXCEPT !.session.completed_batches =
                IF \E k \in 1..Len(@) : @[k] = batchNumber
                  THEN @
                  ELSE Append(@, batchNumber),
             !.session.last_updated = t]

\* saveProgressToCloud after a 200: the session captured when the save
\* started, with the server's version and lastSaved
savedStore(st, captured, result) ==
  [st EXCEPT !.session = [captured EXCEPT !._version = result.version,
                                          !.last_updated = result.lastSaved],
             !.conflictError = NoResult,
             !.hasUnsavedChanges = FALSE]

\* A conflict handler that drops the local changes
conflictStore_Discard(st, result) ==
  [st EXCEPT !.conflictError = result,
             !.session._version = result.currentVersion,
             !.hasUnsavedChanges = FALSE]

\* saveProgressToCloud after a 409
conflictStore(st, result) ==
  [st EXCEPT !.conflictError = result]

\* The review page's effects depend on [sessionId, session]: whenever the
\* store's session object is replaced while the page is mounted, the cleanup
\* of the unlock effect sends PATCH unlock and the heartbeat interval restarts.
SessionObjectReplaced(u) ==
  IF page[u] = "check"
    THEN /\ patch[u] = "none"
         /\ patch' = [patch EXCEPT ![u] = "unlock"]
         /\ hbStart' = [hbStart EXCEPT ![u] = now]
    ELSE UNCHANGED <<patch, hbStart>>

\* Home page: a CSV upload creates a new local session (version 1, all
\* devices pending) and opens the review page; nothing is sent to the server.
Upload(u, devices) ==
  /\ page[u] = "home"
  /\ req[u] = Idle
  /\ nextId = 0
  /\ \A w \in Users : store[w].session = NoSession
  /\ store' = [store EXCEPT ![u] = setSession([NoSession EXCEPT !.devices = devices,
                                                                !.current_batch = 1,
                                                                !.last_updated = now])]
  /\ page' = [page EXCEPT ![u] = "check"]
  /\ hbStart' = [hbStart EXCEPT ![u] = now]
  /\ UNCHANGED <<row, nextId, now, updates, patch, req>>
  /\ UNCHANGED <<blob, logDown, reply, deletedCount, savedDevices>>

\* Review page: a reviewer sets the status of a device
Edit(u, i, status) ==
  /\ page[u] = "check"
  /\ store[u].session # NoSession
  /\ i \in 1..Len(store[u].session.devices)
  /\ store' = [store EXCEPT ![u] = updateDevice(@, i, status, now)]
  /\ SessionObjectReplaced(u)
  /\ UNCHANGED <<row, nextId, now, updates, page, req>>
  /\ UNCHANGED <<blob, logDown, reply, deletedCount, savedDevices>>

\* Review page: batch navigation
SetCurrentBatch(u, batchNumber) ==
  /\ page[u] = "check"
  /\ store[u].session # NoSession
  /\ store' = [store EXCEPT ![u] = setCurrentBatch(@, batchNumber)]
  /\ SessionObjectReplaced(u)
  /\ UNCHANGED <<row, nextId, now, updates, page, req>>
  /\ UNCHANGED <<blob, logDown, reply, deletedCount, savedDevices>>

\* Review page: the batch is marked complete
MarkBatchComplete(u, batchNumber) ==
  /\ page[u] = "check"
  /\ store[u].session # NoSession
  /\ store' = [store EXCEPT ![u] = markBatchComplete(@, batchNumber, now)]
  /\ SessionObjectReplaced(u)
  /\ UNCHANGED <<row, nextId, now, updates, page, req>>
  /\ UNCHANGED <<blob, logDown, reply, deletedCount, savedDevices>>

\* Review page: in-app navigation away; the unlock effect's cleanup runs
Leave(u) ==
  /\ page[u] = "check"
  /\ patch[u] = "none"
  /\ page' = [page EXCEPT ![u] = "home"]
  /\ patch' = [patch EXCEPT ![u] = "unlock"]
  /\ hbStart' = [hbStart EXCEPT ![u] = NoTime]
  /\ UNCHANGED <<row, nextId, now, updates, store, req>>
  /\ UNCHANGED <<blob, logDown, reply, deletedCount, savedDevices>>

\* The tab is closed or crashes: the in-memory store is lost, no unlock
\* reaches the PATCH handler, responses still in flight are dropped
CloseTab(u) ==
  /\ page[u] = "check"
  /\ page' = [page EXCEPT ![u] = "home"]
  /\ store' = [store EXCEPT ![u] = InitialStore]
  /\ hbStart' = [hbStart EXCEPT ![u] = NoTime]
  /\ req' = [req EXCEPT ![u] = IF @ = Idle THEN @ ELSE [@ EXCEPT !.dropped = TRUE]]
  /\ UNCHANGED <<row, nextId, now, updates, patch>>
  /\ UNCHANGED <<blob, logDown, reply, deletedCount, savedDevices>>

----------------------------------------------------------------------------
(* POST /api/sessions: save *)

\* saveProgressToCloud: POST the whole local session, _version included,
\* with last_updated = saveTimestamp
StartSave(u) ==
  /\ page[u] = "check"
  /\ store[u].session # NoSession
  /\ req[u] = Idle
  /\ row # NoRow => row.version < MaxVersion
  /\ req' = [req EXCEPT ![u] = [Idle EXCEPT !.op = "POST", !.pc = "get",
                                           !.body = [store[u].session EXCEPT !.last_updated = now]]]
  /\ UNCHANGED <<row, nextId, now, updates, store, page, hbStart, patch>>
  /\ UNCHANGED <<blob, logDown, reply, deletedCount, savedDevices>>

\* The save handler of the payload-store layout: the device array is put
\* at sessions/{session_id}/devices.json, overwriting the object in place,
\* and the URL is handed to createSession / updateSession; a failed put
\* answers 500
PostUpload(u, stored) ==
  /\ req[u].op = "POST"
  /\ req[u].pc = "upload"
  /\ IF stored
       THEN /\ blob' = req[u].body.devices
            /\ req' = [req EXCEPT ![u].pc = "get", ![u].blobUrl = BlobUrl]
       ELSE /\ req' = [req EXCEPT ![u].pc = "done",
                                  ![u].result = [NoResult EXCEPT !.status = 500]]
            /\ UNCHANGED blob
  /\ UNCHANGED <<row, nextId, now, updates, store, page, hbStart, patch>>
  /\ UNCHANGED <<logDown, reply, deletedCount, savedDevices>>

\* const existingSession = await getSession(sessionData.session_id); the
\* handler reads nothing but _version from it, so only that is kept
PostGetSession(u) ==
  /\ req[u].op = "POST"
  /\ req[u].pc = "get"
  /\ LET existingSession == [NoSession EXCEPT !._version = getSession(row)._version] IN
       req' = [req EXCEPT ![u].existing = existingSession,
                          ![u].rowId = row.id,
                          ![u].pc = IF existingSession # NoSession THEN "update" ELSE "create"]
  /\ UNCHANGED <<row, nextId, now, updates, store, page, hbStart, patch>>
  /\ UNCHANGED <<blob, logDown, reply, deletedCount, savedDevices>>

\* const currentVersion = existingSession._version || 1
currentVersion(existingSession) ==
  IF existingSession._version = NoVersion THEN 1 ELSE existingSession._version

\* await logSessionActivity(...) before the response is built: when the
\* INSERT throws, the handler's outer catch answers 500 SAVE_FAILED
Logged(result) ==
  IF logDown THEN [NoResult EXCEPT !.status = 500] ELSE result

\* updateSession, first statement: the conditional UPDATE ... RETURNING *;
\* on success the handler logs the update and answers
PostUpdate(u) ==
  /\ req[u].op = "POST"
  /\ req[u].pc = "update"
  /\ LET expectedVersion == currentVersion(req[u].existing) IN
       IF VersionMatches(row, expectedVersion)
         THEN /\ row' = UpdatedRow(row, req[u].body, req[u].blobUrl, now)
              /\ updates' = updates + 1
              /\ req' = [req EXCEPT ![u].pc = "done",
                                    ![u].result = Logged([NoResult EXCEPT !.status = 200,
                                                                          !.action = "updated",
                                                                          !.version = row'.version,
                                                                          !.lastSaved = row'.updated_at])]
         ELSE /\ req' = [req EXCEPT ![u].pc = "existing"]
              /\ UNCHANGED <<row, updates>>
  /\ UNCHANGED <<nextId, now, store, page, hbStart, patch>>
  /\ savedDevices' = IF row' # row THEN req[u].body.devices ELSE savedDevices
  /\ UNCHANGED <<blob, logDown, reply, deletedCount>>

\* updateSession after zero rows: SELECT version, then 'Session not found'
\* (500) or OptimisticLockError (409)
PostSelectVersion(u) ==
  /\ req[u].op = "POST"
  /\ req[u].pc = "existing"
  /\ LET expectedVersion == currentVersion(req[u].existing) IN
       req' = [req EXCEPT ![u].pc = "done",
                          ![u].result =
                             IF row = NoRow
                               THEN [NoResult EXCEPT !.status = 500]
                               ELSE Logged([NoResult EXCEPT !.status = 409,
                                                            !.currentVersion = row.version,
                                                            !.attemptedVersion = expectedVersion])]
  /\ UNCHANGED <<row, nextId, now, updates, store, page, hbStart, patch>>
  /\ UNCHANGED <<blob, logDown, reply, deletedCount, savedDevices>>

\* A table without the constraint on session_id
SessionIdTaken_Never(r) ==
  FALSE

\* session_id VARCHAR(255) UNIQUE NOT NULL: an INSERT of a session_id that
\* has a row is rejected
SessionIdTaken(r) ==
  r # NoRow

\* createSession: INSERT ... RETURNING *; a rejected INSERT throws and the
\* handler's outer catch answers 500
PostCreate(u) ==
  /\ req[u].op = "POST"
  /\ req[u].pc = "create"
  /\ IF ~SessionIdTaken(row)
       THEN /\ row' = InsertedRow(nextId + 1, req[u].body, req[u].blobUrl, now)
            /\ nextId' = nextId + 1
            /\ updates' = 0
            /\ req' = [req EXCEPT ![u].pc = "done",
                                  ![u].result = Logged([NoResult EXCEPT !.status = 200,
                                                                        !.action = "created",
                                                                        !.version = row'.version,
                                                                        !.lastSaved = row'.updated_at])]
       ELSE /\ req' = [req EXCEPT ![u].pc = "done",
                                  ![u].result = [NoResult EXCEPT !.status = 500]]
            /\ UNCHANGED <<row, nextId, updates>>
  /\ UNCHANGED <<now, store, page, hbStart, patch>>
  /\ savedDevices' = IF row' # row THEN req[u].body.devices ELSE savedDevices
  /\ UNCHANGED <<blob, logDown, reply, deletedCount>>

\* saveProgressToCloud resumes with the response
SaveDone(u) ==
  /\ req[u].op = "POST"
  /\ req[u].pc = "done"
  /\ req' = [req EXCEPT ![u] = Idle]
  /\ IF req[u].dropped
       THEN UNCHANGED <<store, patch, hbStart>>
       ELSE IF req[u].result.status = 200
         THEN /\ store' = [store EXCEPT ![u] = savedStore(@, req[u].body, req[u].result)]
              /\ SessionObjectReplaced(u)
         ELSE IF req[u].result.status = 409
           THEN /\ store' = [store EXCEPT ![u] = conflictStore(@, req[u].result)]
                /\ UNCHANGED <<patch, hbStart>>
           ELSE UNCHANGED <<store, patch, hbStart>>
  /\ UNCHANGED <<row, nextId, now, updates, page>>
  /\ UNCHANGED <<blob, logDown, reply, deletedCount, savedDevices>>

\* saveProgressToCloud called again (autosave tick, Save button, shortcut)
\* while the POST of an earlier call is in flight
StartOverlappingSave(u) ==
  /\ page[u] = "check"
  /\ store[u].session # NoSession
  /\ req[u].op = "POST"
  /\ req[Overlap] = Idle
  /\ row # NoRow => row.version < MaxVersion
  /\ req' = [req EXCEPT ![Overlap] = [Idle EXCEPT !.op = "POST", !.pc = "get",
                                                 !.body = [store[u].session EXCEPT !.last_updated = now]]]
  /\ UNCHANGED <<row, nextId, now, updates, store, page, hbStart, patch>>
  /\ UNCHANGED <<blob, logDown, reply, deletedCount, savedDevices>>

\* That second call resumes with its response
OverlappingSaveDone(u) ==
  /\ page[u] = "check"
  /\ req[Overlap].op = "POST"
  /\ req[Overlap].pc = "done"
  /\ req' = [req EXCEPT ![Overlap] = Idle]
  /\ IF req[Overlap].result.status = 200
       THEN /\ store' = [store EXCEPT ![u] = savedStore(@, req[Overlap].body, req[Overlap].result)]
            /\ SessionObjectReplaced(u)
       ELSE IF req[Overlap].result.status = 409
         THEN /\ store' = [store EXCEPT ![u] = conflictStore(@, req[Overlap].result)]
              /\ UNCHANGED <<patch, hbStart>>
         ELSE UNCHANGED <<store, patch, hbStart>>
  /\ UNCHANGED <<row, nextId, now, updates, page>>
  /\ UNCHANGED <<blob, logDown, reply, deletedCount, savedDevices>>

----------------------------------------------------------------------------
(* GET /api/sessions/{id}: load, taking the lock *)

\* Home page: resume a session (handleResumeSession)
StartLoad(u) ==
  /\ page[u] = "home"
  /\ req[u] = Idle
  /\ nextId > 0
  /\ req' = [req EXCEPT ![u] = [Idle EXCEPT !.op = "GET", !.pc = "get"]]
  /\ UNCHANGED <<row, nextId, now, updates, store, page, hbStart, patch>>
  /\ UNCHANGED <<blob, logDown, reply, deletedCount, savedDevices>>

\* const sessionData = await getSession(sessionId); 404 if null
GetGetSession(u) ==
  /\ req[u].op = "GET"
  /\ req[u].pc = "get"
  /\ LET sessionData == getSession(row) IN
       req' = IF sessionData = NoSession
                THEN [req EXCEPT ![u].pc = "done",
                                 ![u].result = [NoResult EXCEPT !.status = 404]]
                ELSE [req EXCEPT ![u].pc = "locked?",
                                 ![u].existing = sessionData,
                                 ![u].rowId = row.id]
  /\ UNCHANGED <<row, nextId, now, updates, store, page, hbStart, patch>>
  /\ UNCHANGED <<blob, logDown, reply, deletedCount, savedDevices>>

\* lockSession, first statement: SELECT the lock of another user that is
\* younger than 5 minutes; SessionLockedError (423) if there is one
GetLockCheck(u) ==
  /\ req[u].op = "GET"
  /\ req[u].pc = "locked?"
  /\ req' = IF LockedByOther(row, u, now)
              THEN [req EXCEPT ![u].pc = "done",
                               ![u].result = [NoResult EXCEPT !.status = 423,
                                                              !.lockedBy = row.locked_by,
                                                              !.lockedAt = row.locked_at]]
              ELSE [req EXCEPT ![u].pc = "lock"]
  /\ UNCHANGED <<row, nextId, now, updates, store, page, hbStart, patch>>
  /\ UNCHANGED <<blob, logDown, reply, deletedCount, savedDevices>>

\* lockSession, second statement: UPDATE ... SET locked_by, locked_at; then,
\* for a row without blob_url, the handler answers 200 with the session read
\* by getSession; with a blob_url it goes on to fetch the device array
GetLockUpdate(u) ==
  /\ req[u].op = "GET"
  /\ req[u].pc = "lock"
  /\ row' = LockedRow(row, u, now)
  /\ req' = IF req[u].existing.blob_url = NULL
              THEN [req EXCEPT ![u].pc = "done",
                               ![u].result = [NoResult EXCEPT !.status = 200,
                                                              !.session = req[u].existing]]
              ELSE [req EXCEPT ![u].pc = "fetch"]
  /\ UNCHANGED <<nextId, now, updates, store, page, hbStart, patch>>
  /\ UNCHANGED <<blob, logDown, reply, deletedCount, savedDevices>>

\* const blobResponse = await fetch(sessionData.blob_url): the devices of
\* the object when the fetch succeeds; when it fails the catch falls back to
\* an empty array.  The handler answers 200 either way, without blob_url.
GetFetchBlob(u, fetched) ==
  /\ req[u].op = "GET"
  /\ req[u].pc = "fetch"
  /\ LET devices == IF fetched /\ blob # NoBlob THEN blob ELSE NoDevices IN
       req' = [req EXCEPT ![u].pc = "done",
                          ![u].result = [NoResult EXCEPT !.status = 200,
                                                         !.session = [req[u].existing EXCEPT
                                                                        !.devices = devices,
                                                                        !.blob_url = NULL]]]
  /\ UNCHANGED <<row, nextId, now, updates, store, page, hbStart, patch>>
  /\ UNCHANGED <<blob, logDown, reply, deletedCount, savedDevices>>

\* handleResumeSession resumes with the response: setSession and open the
\* review page on success, stay on the home page otherwise
LoadDone(u) ==
  /\ req[u].op = "GET"
  /\ req[u].pc = "done"
  /\ req' = [req EXCEPT ![u] = Idle]
  /\ IF ~req[u].dropped /\ req[u].result.status = 200 /\ page[u] = "home"
       THEN /\ store' = [store EXCEPT ![u] = setSession(req[u].result.session)]
            /\ page' = [page EXCEPT ![u] = "check"]
            /\ hbStart' = [hbStart EXCEPT ![u] = now]
       ELSE UNCHANGED <<store, page, hbStart>>
  /\ UNCHANGED <<row, nextId, now, updates, patch>>
  /\ UNCHANGED <<blob, logDown, reply, deletedCount, savedDevices>>

----------------------------------------------------------------------------
(* PATCH and DELETE /api/sessions/{id} *)

\* PATCH {action: "unlock"}: unlockSession(sessionId, userId); the page
\* does not read the responses to unlock and refresh
PatchUnlock(u) ==
  /\ patch[u] = "unlock"
  /\ patch' = [patch EXCEPT ![u] = "none"]
  /\ row' = UnlockedRow(row, u, now)
  /\ UNCHANGED <<nextId, now, updates, store, page, hbStart, req>>
  /\ UNCHANGED <<blob, logDown, reply, deletedCount, savedDevices>>

\* PATCH {action: "refresh"}: refreshSessionLock(sessionId, userId)
PatchRefresh(u) ==
  /\ patch[u] = "refresh"
  /\ patch' = [patch EXCEPT ![u] = "none"]
  /\ row' = RefreshedRow(row, u, now)
  /\ UNCHANGED <<nextId, now, updates, store, page, hbStart, req>>
  /\ UNCHANGED <<blob, logDown, reply, deletedCount, savedDevices>>

\* Review page: the heartbeat interval fires 60 s after it was started and
\* sends PATCH {action: "refresh"}
Heartbeat(u) ==
  /\ page[u] = "check"
  /\ now - hbStart[u] >= HeartbeatMinutes
  /\ patch[u] = "none"
  /\ hbStart' = [hbStart EXCEPT ![u] = now]
  /\ patch' = [patch EXCEPT ![u] = "refresh"]
  /\ UNCHANGED <<row, nextId, now, updates, store, page, req>>
  /\ UNCHANGED <<blob, logDown, reply, deletedCount, savedDevices>>

\* DELETE: logSessionActivity in a try/catch of its own, then
\* deleteSession(sessionId); answers 200
DeleteSession(u) ==
  /\ patch[u] = "delete"
  /\ patch' = [patch EXCEPT ![u] = "none"]
  /\ row' = SoftDeletedRow(row, now)
  /\ reply' = 200
  /\ UNCHANGED <<nextId, now, updates, store, page, hbStart, req>>
  /\ UNCHANGED <<blob, logDown, deletedCount, savedDevices>>

\* PATCH {action: "restore"}: restoreSession(sessionId), then
\* logSessionActivity; when the INSERT throws (the log table is unavailable,
\* or its foreign key finds no session row) the outer catch answers 500
PatchRestore(u) ==
  /\ patch[u] = "restore"
  /\ patch' = [patch EXCEPT ![u] = "none"]
  /\ row' = RestoredRow(row, now)
  /\ reply' = IF logDown \/ row = NoRow THEN 500 ELSE 200
  /\ UNCHANGED <<nextId, now, updates, store, page, hbStart, req>>
  /\ UNCHANGED <<blob, logDown, deletedCount, savedDevices>>

\* A cleanup that already removes at the cutoff
CleanupRemoves_AtCutoff(r, t) ==
  /\ r # NoRow
  /\ r.deleted_at # NoTime
  /\ r.deleted_at <= t - RetentionDays * MinutesPerDay

\* A cleanup that has lost its retention interval
CleanupRemoves_AnyDeleted(r, t) ==
  /\ r # NoRow
  /\ r.deleted_at # NoTime

\* cleanup_old_deleted_sessions(): DELETE FROM sessions WHERE deleted_at IS
\* NOT NULL AND deleted_at < NOW() - INTERVAL '14 days', returning ROW_COUNT
CleanupRemoves(r, t) ==
  /\ r # NoRow
  /\ r.deleted_at # NoTime
  /\ r.deleted_at < t - RetentionDays * MinutesPerDay

\* cleanupOldDeletedSessions, run by scripts/cleanup-deleted-sessions.ts
Cleanup ==
  /\ row' = IF CleanupRemoves(row, now) THEN NoRow ELSE row
  /\ deletedCount' = IF CleanupRemoves(row, now) THEN 1 ELSE 0
  /\ UNCHANGED <<nextId, now, updates, store, page, hbStart, patch, req>>
  /\ UNCHANGED <<blob, logDown, reply, savedDevices>>

\* The activity log starts or stops failing
LogFailure ==
  /\ logDown' = ~logDown
  /\ UNCHANGED <<row, nextId, now, updates, store, page, hbStart, patch, req>>
  /\ UNCHANGED <<blob, reply, deletedCount, savedDevices>>

----------------------------------------------------------------------------
(* Time *)

\* A minute passes.  An open review page's heartbeat interval fires when it
\* is due, so time does not pass over a due heartbeat.  Only the row holds
\* timestamps, so the clock is started by the first insert.
Tick ==
  /\ now < MaxTime
  /\ row # NoRow
  /\ \A u \in Users : page[u] = "check" => now - hbStart[u] < HeartbeatMinutes
  /\ now' = now + 1
  /\ UNCHANGED <<row, nextId, updates, store, page, hbStart, patch, req>>
  /\ UNCHANGED <<blob, logDown, reply, deletedCount, savedDevices>>

\* A day passes
DayPasses ==
  /\ now < MaxDays * MinutesPerDay
  /\ row # NoRow
  /\ now' = now + MinutesPerDay
  /\ UNCHANGED <<row, nextId, updates, store, page, hbStart, patch, req>>
  /\ UNCHANGED <<blob, logDown, reply, deletedCount, savedDevices>>

----------------------------------------------------------------------------

Next ==
  \/ \E u \in Users, devices \in Uploads : Upload(u, devices)
  \/ \E u \in Users, i \in DeviceIndexes, status \in ReviewStatus : Edit(u, i, status)
  \/ \E u \in Users : Leave(u)
  \/ \E u \in Users : StartSave(u)
  \/ \E u \in Users : PostGetSession(u)
  \/ \E u \in Users : PostUpdate(u)
  \/ \E u \in Users : PostSelectVersion(u)
  \/ \E u \in Users : PostCreate(u)
  \/ \E u \in Users : SaveDone(u)
  \/ \E u \in Users : StartLoad(u)
  \/ \E u \in Users : GetGetSession(u)
  \/ \E u \in Users : GetLockCheck(u)
  \/ \E u \in Users : GetLockUpdate(u)
  \/ \E u \in Users : LoadDone(u)
  \/ \E u \in Users : PatchUnlock(u)

\* The browser clients against the server, within one minute
Spec == Init /\ [][Next]_vars

----------------------------------------------------------------------------
(* A session that has been created and saved by an upload whose tab has    *)
(* since been closed.                                                       *)

InitPage ==
  /\ row \in {InsertedRow(1, [NoSession EXCEPT !.devices = devices, !.current_batch = 1],
                          NULL, 0) : devices \in Uploads}
  /\ nextId = 1
  /\ now = 0
  /\ updates = 0
  /\ store = [u \in Users |-> InitialStore]
  /\ page = [u \in Users |-> "home"]
  /\ hbStart = [u \in Users |-> NoTime]
  /\ patch = [u \in Users |-> "none"]
  /\ req = [c \in Conns |-> Idle]
  /\ blob = NoBlob
  /\ logDown = FALSE
  /\ reply = NoStatus
  /\ deletedCount = NoCount
  /\ savedDevices = row.devices


----------------------------------------------------------------------------
(* The HTTP surface on its own: any authenticated user may send any request *)
(* at any time; the responses are not handed to a store (dropped).          *)

ApiBodies ==
  {[NoSession EXCEPT !.devices = d, !.current_batch = 1, !.last_updated = 0] : d \in DeviceArrays}

\* POST /api/sessions with a session body
ApiSave(u, body) ==
  /\ req[u] = Idle
  /\ row # NoRow => row.version < MaxVersion
  /\ req' = [req EXCEPT ![u] = [Idle EXCEPT !.op = "POST", !.pc = "get",
                                           !.body = body, !.dropped = TRUE]]
  /\ UNCHANGED <<row, nextId, now, updates, store, page, hbStart, patch>>
  /\ UNCHANGED <<blob, logDown, reply, deletedCount, savedDevices>>

\* GET /api/sessions/{id}
ApiLoad(u) ==
  /\ req[u] = Idle
  /\ req' = [req EXCEPT ![u] = [Idle EXCEPT !.op = "GET", !.pc = "get", !.dropped = TRUE]]
  /\ UNCHANGED <<row, nextId, now, updates, store, page, hbStart, patch>>
  /\ UNCHANGED <<blob, logDown, reply, deletedCount, savedDevices>>

\* PATCH /api/sessions/{id} with an action, or DELETE /api/sessions/{id}
ApiPatch(u, action) ==
  /\ patch[u] = "none"
  /\ patch' = [patch EXCEPT ![u] = action]
  /\ UNCHANGED <<row, nextId, now, updates, store, page, hbStart, req>>
  /\ UNCHANGED <<blob, logDown, reply, deletedCount, savedDevices>>

\* POST /api/sessions with a session body, payload-store layout
ApiSaveBlob(u, body) ==
  /\ req[u] = Idle
  /\ row # NoRow => row.version < MaxVersion
  /\ req' = [req EXCEPT ![u] = [Idle EXCEPT !.op = "POST", !.pc = "upload",
                                           !.body = body, !.dropped = TRUE]]
  /\ UNCHANGED <<row, nextId, now, updates, store, page, hbStart, patch>>
  /\ UNCHANGED <<blob, logDown, reply, deletedCount, savedDevices>>

NextApi ==
  \/ \E u \in Users, body \in ApiBodies : ApiSave(u, body)
  \/ \E u \in Users : PostGetSession(u)
  \/ \E u \in Users : PostUpdate(u)
  \/ \E u \in Users : PostSelectVersion(u)
  \/ \E u \in Users : PostCreate(u)
  \/ \E u \in Users : SaveDone(u)
  \/ \E u \in Users : ApiLoad(u)
  \/ \E u \in Users : GetGetSession(u)
  \/ \E u \in Users : GetLockCheck(u)
  \/ \E u \in Users : GetLockUpdate(u)
  \/ \E u \in Users : LoadDone(u)
  \/ \E u \in Users, action \in {"unlock", "refresh", "restore", "delete"} : ApiPatch(u, action)
  \/ \E u \in Users : PatchUnlock(u)
  \/ \E u \in Users : PatchRefresh(u)
  \/ \E u \in Users : DeleteSession(u)
  \/ \E u \in Users : PatchRestore(u)

\* Versions and soft delete, within one minute
SpecApi == Init /\ [][NextApi]_vars

NextLock ==
  \/ \E u \in Users : ApiLoad(u)
  \/ \E u \in Users : GetGetSession(u)
  \/ \E u \in Users : GetLockCheck(u)
  \/ \E u \in Users : GetLockUpdate(u)
  \/ \E u \in Users : LoadDone(u)
  \/ \E u \in Users, action \in {"unlock", "refresh"} : ApiPatch(u, action)
  \/ \E u \in Users : PatchUnlock(u)
  \/ \E u \in Users : PatchRefresh(u)
  \/ Tick

\* The advisory lock over time, on a session that exists
SpecLock == InitPage /\ [][NextLock]_vars

----------------------------------------------------------------------------
(* One editor's browser over time, against load requests of any identity *)

Editors == {"alice"}

NextPage ==
  \/ \E u \in Editors : StartLoad(u)
  \/ \E u \in Users : ApiLoad(u)
  \/ \E u \in Users : GetGetSession(u)
  \/ \E u \in Users : GetLockCheck(u)
  \/ \E u \in Users : GetLockUpdate(u)
  \/ \E u \in Users : LoadDone(u)
  \/ \E u \in Editors, i \in DeviceIndexes, status \in ReviewStatus : Edit(u, i, status)
  \/ \E u \in Editors : Leave(u)
  \/ \E u \in Editors : CloseTab(u)
  \/ \E u \in Users : PatchUnlock(u)
  \/ \E u \in Users : PatchRefresh(u)
  \/ \E u \in Editors : Heartbeat(u)
  \/ Tick

SpecPage == InitPage /\ [][NextPage]_vars



----------------------------------------------------------------------------
(* Saves alone: any user may POST any body at any time *)

NextSave ==
  \/ \E u \in Users, body \in ApiBodies : ApiSave(u, body)
  \/ \E u \in Users : PostGetSession(u)
  \/ \E u \in Users : PostUpdate(u)
  \/ \E u \in Users : PostSelectVersion(u)
  \/ \E u \in Users : PostCreate(u)
  \/ \E u \in Users : SaveDone(u)

SpecSave == Init /\ [][NextSave]_vars

----------------------------------------------------------------------------
(* The activity log failing under saves, deletes and restores *)

NextLog ==
  \/ \E u \in Users, body \in ApiBodies : ApiSave(u, body)
  \/ \E u \in Users : PostGetSession(u)
  \/ \E u \in Users : PostUpdate(u)
  \/ \E u \in Users : PostSelectVersion(u)
  \/ \E u \in Users : PostCreate(u)
  \/ \E u \in Users : SaveDone(u)
  \/ \E u \in Users, action \in {"restore", "delete"} : ApiPatch(u, action)
  \/ \E u \in Users : DeleteSession(u)
  \/ \E u \in Users : PatchRestore(u)
  \/ LogFailure

SpecLog == Init /\ [][NextLog]_vars

----------------------------------------------------------------------------
(* The payload-store layout: saves that put the device array before the    *)
(* row's compare-and-set, loads that fetch it after taking the lock         *)

NextBlob ==
  \/ \E u \in Users, body \in ApiBodies : ApiSaveBlob(u, body)
  \/ \E u \in Users, stored \in BOOLEAN : PostUpload(u, stored)
  \/ \E u \in Users : PostGetSession(u)
  \/ \E u \in Users : PostUpdate(u)
  \/ \E u \in Users : PostSelectVersion(u)
  \/ \E u \in Users : PostCreate(u)
  \/ \E u \in Users : SaveDone(u)
  \/ \E u \in Users : ApiLoad(u)
  \/ \E u \in Users : GetGetSession(u)
  \/ \E u \in Users : GetLockCheck(u)
  \/ \E u \in Users : GetLockUpdate(u)
  \/ \E u \in Users, fetched \in BOOLEAN : GetFetchBlob(u, fetched)
  \/ \E u \in Users : LoadDone(u)

SpecBlob == Init /\ [][NextBlob]_vars

----------------------------------------------------------------------------
(* One editor's store, with saves of another identity, within one minute.  *)
(* The row exists from the start and is never removed, so POST never takes  *)
(* its create branch.                                                        *)

NextStore ==
  \/ \E u \in Editors : StartLoad(u)
  \/ \E u \in Users : GetGetSession(u)
  \/ \E u \in Users : GetLockCheck(u)
  \/ \E u \in Users : GetLockUpdate(u)
  \/ \E u \in Users : LoadDone(u)
  \/ \E u \in Editors, i \in DeviceIndexes, status \in ReviewStatus : Edit(u, i, status)
  \/ \E u \in Editors : StartSave(u)
  \/ \E u \in Users \ Editors, body \in ApiBodies : ApiSave(u, body)
  \/ \E u \in Users : PostGetSession(u)
  \/ \E u \in Users : PostUpdate(u)
  \/ \E u \in Users : PostSelectVersion(u)
  \/ \E u \in Users : SaveDone(u)
  \/ \E u \in Users : PatchUnlock(u)

SpecStore == InitPage /\ [][NextStore]_vars

----------------------------------------------------------------------------
(* Handing a session over: one editor's browser loads, edits, saves and    *)
(* leaves; the other identity sends load requests.  Within one minute.      *)

NextHandover ==
  \/ \E u \in Editors : StartLoad(u)
  \/ \E u \in Users \ Editors : ApiLoad(u)
  \/ \E u \in Users : GetGetSession(u)
  \/ \E u \in Users : GetLockCheck(u)
  \/ \E u \in Users : GetLockUpdate(u)
  \/ \E u \in Users : LoadDone(u)
  \/ \E u \in Editors, i \in DeviceIndexes, status \in ReviewStatus : Edit(u, i, status)
  \/ \E u \in Editors : StartSave(u)
  \/ \E u \in Editors : PostGetSession(u)
  \/ \E u \in Editors : PostUpdate(u)
  \/ \E u \in Editors : SaveDone(u)
  \/ \E u \in Editors : Leave(u)
  \/ \E u \in Editors : PatchUnlock(u)

SpecHandover == InitPage /\ [][NextHandover]_vars

----------------------------------------------------------------------------
(* The only writer of a session: one editor's browser, whose saves may      *)
(* overlap.  Within one minute.                                              *)

SoloConns == Editors \cup {Overlap}

NextSolo ==
  \/ \E u \in Editors : StartLoad(u)
  \/ \E u \in Editors : GetGetSession(u)
  \/ \E u \in Editors : GetLockCheck(u)
  \/ \E u \in Editors : GetLockUpdate(u)
  \/ \E u \in Editors : LoadDone(u)
  \/ \E u \in Editors, i \in DeviceIndexes, status \in ReviewStatus : Edit(u, i, status)
  \/ \E u \in Editors : StartSave(u)
  \/ \E u \in Editors : StartOverlappingSave(u)
  \/ \E c \in SoloConns : PostGetSession(c)
  \/ \E c \in SoloConns : PostUpdate(c)
  \/ \E c \in SoloConns : PostSelectVersion(c)
  \/ \E u \in Editors : SaveDone(u)
  \/ \E u \in Editors : OverlappingSaveDone(u)
  \/ \E u \in Editors : PatchUnlock(u)

SpecSolo == InitPage /\ [][NextSolo]_vars

----------------------------------------------------------------------------
(* One editor's local mutations and saves over time.  The row exists and   *)
(* has one writer, so POST takes neither its create nor its conflict branch. *)

NextEdit ==
  \/ \E u \in Editors : StartLoad(u)
  \/ \E u \in Editors : GetGetSession(u)
  \/ \E u \in Editors : GetLockCheck(u)
  \/ \E u \in Editors : GetLockUpdate(u)
  \/ \E u \in Editors : LoadDone(u)
  \/ \E u \in Editors, i \in DeviceIndexes, status \in ReviewStatus : Edit(u, i, status)
  \/ \E u \in Editors, batchNumber \in Batches : SetCurrentBatch(u, batchNumber)
  \/ \E u \in Editors, batchNumber \in Batches : MarkBatchComplete(u, batchNumber)
  \/ \E u \in Editors : StartSave(u)
  \/ \E u \in Editors : PostGetSession(u)
  \/ \E u \in Editors : PostUpdate(u)
  \/ \E u \in Editors : SaveDone(u)
  \/ \E u \in Editors : PatchUnlock(u)
  \/ \E u \in Editors : PatchRefresh(u)
  \/ \E u \in Editors : Heartbeat(u)
  \/ Tick

SpecEdit == InitPage /\ [][NextEdit]_vars

----------------------------------------------------------------------------
(* Soft delete and retention: a session in the payload-store layout that   *)
(* has been created, and possibly saved once, at time 0                     *)

StoredRows ==
  LET created(devices) ==
        InsertedRow(1, [NoSession EXCEPT !.devices = devices, !.current_batch = 1],
                    BlobUrl, 0)
  IN  {created(devices) : devices \in Uploads}
        \cup {UpdatedRow(created(devices), body, BlobUrl, 0) :
                devices \in Uploads, body \in ApiBodies}

InitTrash ==
  /\ row \in StoredRows
  /\ blob \in DeviceArrays
  /\ Len(blob) = row.device_count
  /\ completedDeviceCount(blob) = row.completed_device_count
  /\ nextId = 1
  /\ now = 0
  /\ updates = row.version - 1
  /\ store = [u \in Users |-> InitialStore]
  /\ page = [u \in Users |-> "home"]
  /\ hbStart = [u \in Users |-> NoTime]
  /\ patch = [u \in Users |-> "none"]
  /\ req = [c \in Conns |-> Idle]
  /\ logDown = FALSE
  /\ reply = NoStatus
  /\ deletedCount = NoCount
  /\ savedDevices = blob

NextTrash ==
  \/ \E u \in Users, action \in {"restore", "delete"} : ApiPatch(u, action)
  \/ \E u \in Users : DeleteSession(u)
  \/ \E u \in Users : PatchRestore(u)
  \/ Cleanup
  \/ Tick
  \/ DayPasses

\* Deletes, restores and the cleanup script over minutes and days
SpecTrash == InitTrash /\ [][NextTrash]_vars

\* The same session some days later, soft-deleted at time 0 or still active
InitPurge ==
  /\ \E r \in StoredRows, d \in {RetentionDays, RetentionDays + 1} :
       /\ row \in {r, SoftDeletedRow(r, 0)}
       /\ now = d * MinutesPerDay
  /\ blob \in DeviceArrays
  /\ Len(blob) = row.device_count
  /\ completedDeviceCount(blob) = row.completed_device_count
  /\ nextId = 1
  /\ updates = row.version - 1
  /\ store = [u \in Users |-> InitialStore]
  /\ page = [u \in Users |-> "home"]
  /\ hbStart = [u \in Users |-> NoTime]
  /\ patch = [u \in Users |-> "none"]
  /\ req = [c \in Conns |-> Idle]
  /\ logDown = FALSE
  /\ reply = NoStatus
  /\ deletedCount = NoCount
  /\ savedDevices = blob

Savers == {"alice"}
Loaders == {"bob"}

NextPurge ==
  \/ \E u \in Savers, body \in ApiBodies : ApiSaveBlob(u, body)
  \/ \E u \in Users, stored \in BOOLEAN : PostUpload(u, stored)
  \/ \E u \in Users : PostGetSession(u)
  \/ \E u \in Users : PostUpdate(u)
  \/ \E u \in Users : PostSelectVersion(u)
  \/ \E u \in Users : PostCreate(u)
  \/ \E u \in Users : SaveDone(u)
  \/ \E u \in Loaders : ApiLoad(u)
  \/ \E u \in Users : GetGetSession(u)
  \/ \E u \in Users : GetLockCheck(u)
  \/ \E u \in Users : GetLockUpdate(u)
  \/ \E u \in Users, fetched \in BOOLEAN : GetFetchBlob(u, fetched)
  \/ \E u \in Users : LoadDone(u)
  \/ \E u \in Users, action \in {"restore", "delete"} : ApiPatch(u, action)
  \/ \E u \in Users : DeleteSession(u)
  \/ \E u \in Users : PatchRestore(u)
  \/ Cleanup

\* The cleanup script among saves, loads (lock acquisitions), deletes and restores
SpecPurge == InitPurge /\ [][NextPurge]_vars

NextRecreate ==
  \/ \E u \in Users, body \in ApiBodies : ApiSaveBlob(u, body)
  \/ \E u \in Users, stored \in BOOLEAN : PostUpload(u, stored)
  \/ \E u \in Users : PostGetSession(u)
  \/ \E u \in Users : PostUpdate(u)
  \/ \E u \in Users : PostSelectVersion(u)
  \/ \E u \in Users : PostCreate(u)
  \/ \E u \in Users : SaveDone(u)
  \/ \E u \in Savers, action \in {"restore", "delete"} : ApiPatch(u, action)
  \/ \E u \in Users : DeleteSession(u)
  \/ \E u \in Users : PatchRestore(u)
  \/ Cleanup

\* Saves of any identity among deletes, restores and the cleanup script: a
\* removed session can be created again under its session_id
SpecRecreate == InitPurge /\ [][NextRecreate]_vars


----------------------------------------------------------------------------
(* Optimistic locking *)

\* Two POST handlers have both finished updateSession for the same row and
\* the same expected version, and w's update went through
RacedUpdates(u, w) ==
  /\ u # w
  /\ req[u].op = "POST" /\ req[u].pc = "done"
  /\ req[w].op = "POST" /\ req[w].pc = "done"
  /\ req[u].existing # NoSession
  /\ req[u].existing = req[w].existing
  /\ req[u].rowId = req[w].rowId
  /\ row.id = req[u].rowId
  /\ req[w].result.status = 200
  /\ req[w].result.action = "updated"

C1_LoserGetsConflict ==
  \A u, w \in Users :
    RacedUpdates(u, w) =>
      /\ req[w].result.version = req[w].existing._version + 1
      /\ req[u].result.status = 409
      /\ req[u].result.currentVersion = req[w].result.version
      /\ req[u].result.attemptedVersion = req[u].existing._version

C1_FailedUpdateChangesNothing ==
  \A u \in Users :
    (req[u].op = "POST" /\ req'[u] # req[u] /\ req'[u].result.status # 200) => row' = row

\* C1: of two concurrent update calls on the same session with the same
\* expected version exactly one succeeds, taking the version to expected + 1;
\* the other changes nothing and gets a conflict whose currentVersion is the
\* winner's new version and whose attemptedVersion is the version it passed.
C1_ConcurrentUpdates ==
  []C1_LoserGetsConflict /\ [][C1_FailedUpdateChangesNothing]_vars

C1_Witness ==
  \E u, w \in Users : RacedUpdates(u, w) /\ req[u].result.status = 409

\* C2: a session is created with version 1 and its version is 1 + the number
\* of updates of it that succeeded; nothing else moves the version.
C2_VersionCountsUpdates ==
  row # NoRow => row.version = 1 + updates

C2_Witness ==
  /\ row # NoRow
  /\ updates = 2
  /\ row.version = 3
  /\ row.locked_by # NULL
  /\ row.deleted_at # NoTime

\* A save that carries a version older than the stored one
StaleSave(u) ==
  /\ req[u].op = "POST"
  /\ req[u].pc # "done"
  /\ row # NoRow
  /\ req[u].body._version < row.version

C3_StaleSaveStep ==
  \A u \in Users :
    (StaleSave(u) /\ req'[u] # req[u]) =>
      /\ row' = row
      /\ req'[u].result.status \in {0, 409}
      /\ req'[u].result.status = 409 =>
           /\ req'[u].result.currentVersion = row.version
           /\ req'[u].result.attemptedVersion = req[u].body._version

\* C3: a save through POST /sessions that still carries the version its
\* client loaded, after another client's save has moved the stored version
\* on, is answered 409 with currentVersion the stored version and
\* attemptedVersion the version it carried, and leaves the row unchanged.
C3_StaleSaveConflicts ==
  [][C3_StaleSaveStep]_vars

----------------------------------------------------------------------------
(* Advisory lock *)

\* a holds a lock that has not expired
HeldBy(r, a, t) ==
  /\ r # NoRow
  /\ r.locked_by = a
  /\ t - r.locked_at < LockTtlMinutes

LockGranted(u) ==
  /\ req[u].op = "GET"
  /\ req[u].pc = "lock"
  /\ req'[u].pc = "done"
  /\ req'[u].result.status = 200

C4_GrantStep ==
  \A a, b \in Users :
    (a # b /\ LockGranted(b)) => ~HeldBy(row, a, now)

\* C4: at most one editor holds a non-expired lock: lockSession returns ok
\* for one identity only when no other identity holds a lock that has not
\* expired, so of two concurrent acquisitions at most one returns ok.
C4_OneHolder ==
  [][C4_GrantStep]_vars

LockTest(u) ==
  /\ req[u].op = "GET"
  /\ req[u].pc = "locked?"
  /\ req'[u] # req[u]

C5_RefusalStep ==
  \A a, b \in Users :
    (a # b /\ HeldBy(row, a, now) /\ LockTest(b)) =>
      /\ req'[b].pc = "done"
      /\ req'[b].result.status = 423
      /\ req'[b].result.lockedBy = a
      /\ req'[b].result.lockedAt = row.locked_at
      /\ req'[b].result.session = NoSession
      /\ row' = row

\* C5: while A's lock is younger than the TTL, B's acquisition fails with
\* SessionLockedError (423 on the load path) carrying lockedBy = A and A's
\* lock timestamp; B gets no session data and the lock fields stay as they are.
C5_SecondAcquireRefused ==
  [][C5_RefusalStep]_vars

C5_Witness ==
  \E a, b \in Users :
    /\ a # b
    /\ HeldBy(row, a, now)
    /\ now - row.locked_at = LockTtlMinutes - 1
    /\ req[b].op = "GET" /\ req[b].pc = "done"
    /\ req[b].result.status = 423
    /\ req[b].result.lockedBy = a
    /\ req[b].result.lockedAt = row.locked_at

\* the lock of another identity has reached the TTL
ExpiredFor(r, b, t) ==
  /\ r # NoRow
  /\ r.locked_by \notin {NULL, b}
  /\ t - r.locked_at >= LockTtlMinutes

C6_ReclaimStep ==
  \A b \in Users :
    /\ (ExpiredFor(row, b, now) /\ LockTest(b)) =>
         /\ req'[b].pc = "lock"
         /\ req'[b].result.status # 423
    /\ (req[b].op = "GET" /\ req[b].pc = "lock" /\ req'[b] # req[b] /\ row # NoRow) =>
         /\ req'[b].result.status = 200
         /\ row'.locked_by = b
         /\ row'.locked_at = now
    /\ (LockTest(b) /\ req'[b].result.status = 423) =>
         now - row.locked_at < LockTtlMinutes

\* C6: once the TTL has passed since the holder's last acquire or refresh,
\* any other identity's acquisition succeeds and makes it the holder
\* (locked_by = B, locked_at = now); a refusal is only ever issued for a
\* lock younger than the TTL.
C6_ExpiredLockReclaimed ==
  [][C6_ReclaimStep]_vars

C6_Witness ==
  \E b \in Users :
    /\ req[b].op = "GET" /\ req[b].pc = "lock"
    /\ ExpiredFor(row, b, now)
    /\ now - row.locked_at = LockTtlMinutes

PatchHandled(u) ==
  /\ patch[u] \in {"unlock", "refresh"}
  /\ patch'[u] = "none"

C7_ForeignPatchStep ==
  \A b \in Users :
    (PatchHandled(b) /\ (row = NoRow \/ row.locked_by # b)) => row' = row

\* C7: unlock and refresh by B while the lock is held by another identity
\* or by nobody change nothing: locked_by and locked_at stay as they are.
C7_ForeignReleaseIsNoOp ==
  [][C7_ForeignPatchStep]_vars

C7_Witness ==
  \E a, b \in Users :
    /\ a # b
    /\ HeldBy(row, a, now)
    /\ patch[b] = "unlock"

C8_ForeignSaveStep ==
  \A a, b \in Users :
    (a # b /\ HeldBy(row, a, now) /\ req[b].op = "POST" /\ req'[b] # req[b]) => row' = row

\* C8: while A holds a non-expired lock on the session, no save issued by
\* another identity changes the stored session.
C8_NoSaveUnderForeignLock ==
  [][C8_ForeignSaveStep]_vars

C9_EditorStep ==
  \A u \in Users :
    (page[u] = "check" /\ page'[u] = "check" /\ HeldBy(row, u, now)) => HeldBy(row', u, now')

\* C9: an editor who loaded the session and keeps the review page open
\* remains its lock holder, whatever edits it makes: the lock neither
\* expires nor is released until the editor leaves the page.
C9_OpenPageKeepsLock ==
  [][C9_EditorStep]_vars

----------------------------------------------------------------------------
(* Soft delete *)

C10_LoadStep ==
  \A u \in Users :
    (/\ req[u].op = "GET" /\ req[u].pc = "get" /\ req'[u] # req[u]
     /\ row # NoRow /\ row.deleted_at # NoTime) =>
      /\ req'[u].pc = "done"
      /\ req'[u].result.status = 404
      /\ req'[u].result.session = NoSession

\* C10: GET /sessions/{id} on a soft-deleted session answers 404, returns
\* no session data and goes no further (no lock is taken).
C10_DeletedNotLoadable ==
  [][C10_LoadStep]_vars

DeleteHandled(u) ==
  /\ patch[u] = "delete"
  /\ patch'[u] = "none"

RestoreHandled(u) ==
  /\ patch[u] = "restore"
  /\ patch'[u] = "none"

InList(r) == \E v \in listSessions(r) : v.id = r.id

InDeletedList(r, t) == \E v \in listDeletedSessions(r, t) : v.summary.id = r.id

C11_OneList ==
  row # NoRow =>
    /\ InList(row) <=> row.deleted_at = NoTime
    /\ InDeletedList(row, now) <=> row.deleted_at # NoTime
    /\ InList(row) # InDeletedList(row, now)

C11_DeleteStep ==
  \A u \in Users :
    (DeleteHandled(u) /\ row # NoRow) =>
      /\ row' # NoRow
      /\ ~InList(row')
      /\ InDeletedList(row', now')
      /\ row.deleted_at = NoTime =>
           \A v \in listDeletedSessions(row', now') : v.days_remaining = RetentionDays

\* C11: after delete the session is not in list() and is in listDeleted(),
\* with days_remaining = 14 right after the deletion; in every state a stored
\* session is in exactly one of the two lists, by deleted_at being NULL or not.
C11_DeleteMovesToDeletedList ==
  []C11_OneList /\ [][C11_DeleteStep]_vars

C11_Witness ==
  /\ row # NoRow
  /\ reply = 200
  /\ now > 0
  /\ row.deleted_at = now
  /\ \E v \in listDeletedSessions(row, now) : v.days_remaining = RetentionDays

\* Everything of a row but its lock and its timestamps
SameSession(r1, r2) ==
  /\ r1.id = r2.id
  /\ r1.version = r2.version
  /\ r1.devices = r2.devices
  /\ r1.blob_url = r2.blob_url
  /\ r1.device_count = r2.device_count
  /\ r1.completed_device_count = r2.completed_device_count
  /\ r1.current_batch = r2.current_batch
  /\ r1.completed_batches = r2.completed_batches

C12_DeleteRestoreStep ==
  \A u \in Users :
    /\ (DeleteHandled(u) /\ row # NoRow) => SameSession(row, row')
    /\ (RestoreHandled(u) /\ row # NoRow /\ row.deleted_at # NoTime) =>
         /\ SameSession(row, row')
         /\ InList(row')
         /\ getSession(row') # NoSession
         /\ getSession(row')._version = row.version

\* C12: restore after delete puts the session back in list(), get succeeds,
\* and neither step touches the version, the progress fields, the device
\* counts or the payload pointer.
C12_RestoreLosesNothing ==
  [][C12_DeleteRestoreStep]_vars

C12_Witness ==
  /\ row # NoRow
  /\ row.deleted_at = NoTime
  /\ now > 0
  /\ row.updated_at = now
  /\ row.version = 2
  /\ row.blob_url = BlobUrl
  /\ reply = 200

C13_RepeatStep ==
  \A u \in Users :
    /\ (DeleteHandled(u) /\ row # NoRow /\ row.deleted_at # NoTime) => row' = row
    /\ (RestoreHandled(u) /\ row # NoRow /\ row.deleted_at = NoTime) => row' = row

\* C13: delete of a session that is already soft-deleted changes nothing
\* (deleted_at keeps the time of the first delete), and restore of an active
\* session changes nothing.
C13_RepeatIsNoOp ==
  [][C13_RepeatStep]_vars

C13_Witness ==
  \E u \in Users :
    /\ patch[u] = "delete"
    /\ row # NoRow
    /\ row.deleted_at # NoTime
    /\ now - row.deleted_at >= MinutesPerDay

\* deleted more than the retention window ago
PastRetention(r, t) ==
  /\ r # NoRow
  /\ r.deleted_at # NoTime
  /\ t - r.deleted_at > RetentionDays * MinutesPerDay

C14_CleanupStep ==
  (deletedCount' # deletedCount \/ (row # NoRow /\ row' = NoRow)) =>
    IF PastRetention(row, now)
      THEN row' = NoRow /\ deletedCount' = 1
      ELSE row' = row /\ deletedCount' = 0

\* C14: the cleanup removes exactly the sessions soft-deleted more than 14
\* days ago and returns how many it removed: 1 for such a session, 0 (and no
\* change) for one deleted 14 days ago or less, for an active one, and when
\* it is run again after the removal.
C14_CleanupRemovesExpired ==
  [][C14_CleanupStep]_vars

C14_Witness ==
  /\ row = NoRow
  /\ deletedCount = 1
  /\ now = (RetentionDays + 1) * MinutesPerDay

C15_RemovalStep ==
  (row # NoRow /\ row' = NoRow) =>
    /\ PastRetention(row, now)
    /\ deletedCount' = 1

\* C15: whatever saves, loads, deletes and restores run beside it, a row
\* disappears only by the cleanup and only when, at that moment, it is
\* soft-deleted for more than the retention window: never an active row, a
\* row restored before the cleanup ran, or one deleted more recently.
C15_CleanupOnlyPastCutoff ==
  [][C15_RemovalStep]_vars

C15_Witness ==
  /\ deletedCount = 0
  /\ row # NoRow
  /\ row.deleted_at = NoTime
  /\ row.locked_by # NULL
  /\ row.version > 1
  /\ reply = 200

----------------------------------------------------------------------------
(* Failures *)

C16_LoggedStep ==
  \A u \in Users :
    /\ (req[u].op = "POST" /\ req[u].pc \in {"update", "create"} /\ row' # row) =>
         req'[u].result.status = 200
    /\ ((DeleteHandled(u) \/ RestoreHandled(u)) /\ row' # row) =>
         reply' = 200

\* C16: a create, update, delete or restore that changed the session is
\* answered as a success whether or not its activity-log entry could be
\* written.
C16_LogFailureNotFatal ==
  [][C16_LoggedStep]_vars

C17_FetchStep ==
  \A u \in Users :
    (req[u].op = "GET" /\ req[u].pc = "fetch" /\ req'[u].pc = "done") =>
      IF req'[u].result.status = 200
        THEN req'[u].result.session.devices = blob
        ELSE /\ req'[u].result.status = 500
             /\ req'[u].result.session = NoSession

\* C17: a load that has to fetch the device array from the payload store
\* either returns the stored array or fails with 500 and no session; it
\* never answers 200 with an empty or partial array.
C17_FailedFetchFailsLoad ==
  [][C17_FetchStep]_vars

\* No save other than u's is between its put and its compare-and-set
NoOtherSaveInFlight(u) ==
  \A w \in Users \ {u} :
    ~(req[w].op = "POST" /\ req[w].pc \in {"get", "update", "create"})

C18_LoserStep ==
  \A u \in Users :
    (/\ req[u].op = "POST" /\ req[u].pc = "existing"
     /\ req[u].blobUrl # NULL
     /\ req'[u].result.status = 409) =>
      /\ row' = row
      /\ NoOtherSaveInFlight(u) => blob' = savedDevices'

\* C18: when a save has put its device array and then loses the row's
\* compare-and-set (409), the row is unchanged and what a load fetches at
\* the row's payload pointer is still the device array of the last save
\* that succeeded.
C18_LostSaveLeavesPayload ==
  [][C18_LoserStep]_vars

----------------------------------------------------------------------------
(* Client store *)

C19_ConflictStep ==
  \A u \in Users :
    (/\ req[u].op = "POST" /\ req[u].pc = "done" /\ ~req[u].dropped
     /\ req[u].result.status = 409
     /\ req'[u] = Idle) =>
      /\ store'[u].conflictError.currentVersion = req[u].result.currentVersion
      /\ store'[u].conflictError.attemptedVersion = req[u].result.attemptedVersion
      /\ store'[u].session = store[u].session
      /\ store'[u].hasUnsavedChanges = store[u].hasUnsavedChanges

\* C19: on a 409 the store records the response's currentVersion and
\* attemptedVersion in conflictError and leaves the local session and
\* hasUnsavedChanges as they were.
C19_ConflictKeepsLocalEdits ==
  [][C19_ConflictStep]_vars

C19_Witness ==
  \E u \in Users :
    /\ store[u].conflictError.status = 409
    /\ store[u].conflictError.currentVersion > store[u].conflictError.attemptedVersion
    /\ store[u].hasUnsavedChanges
    /\ store[u].session._version < row.version

\* The store of u changes by something other than a response coming in
LocalMutation(u) ==
  /\ page[u] = "check"
  /\ store'[u] # store[u]
  /\ ~(req[u].pc = "done" /\ req'[u] = Idle)

C20_MutationStep ==
  \A u \in Users :
    LocalMutation(u) =>
      /\ store'[u].hasUnsavedChanges
      /\ store'[u].session.last_updated = now
      /\ req'[u] = req[u]

\* C20: every local mutation of the session in the store (device change,
\* batch navigation, batch completion) sets hasUnsavedChanges, stamps the
\* local last_updated with the current time and sends nothing.
C20_MutationsMarkUnsaved ==
  [][C20_MutationStep]_vars

----------------------------------------------------------------------------
(* Device counts *)

\* Number of devices of an array that have been decided
Decided(devices) ==
  Cardinality({i \in DOMAIN devices :
                 devices[i] = "approved" \/ devices[i] = "custom_selected"
                   \/ devices[i] = "rejected"})

C21_SaveStep ==
  \A u \in Users :
    (/\ req[u].op = "POST" /\ req[u].pc \in {"update", "create"}
     /\ req'[u].result.status = 200) =>
      /\ row'.device_count = Len(req[u].body.devices)
      /\ row'.completed_device_count = Decided(req[u].body.devices)

C21_StoredCounts ==
  row # NoRow =>
    /\ row.device_count = Len(savedDevices)
    /\ row.completed_device_count = Decided(savedDevices)
    /\ \A v \in listSessions(row) :
         /\ v.device_count = Len(savedDevices)
         /\ v.completed_device_count = Decided(savedDevices)

\* C21: a successful create or update leaves device_count equal to the
\* length of the saved device array and completed_device_count equal to the
\* number of its approved, custom_selected or rejected devices, and the
\* stored row and its summary report those counts until the next save.
C21_CountsFollowSave ==
  []C21_StoredCounts /\ [][C21_SaveStep]_vars

C21_Witness ==
  /\ row # NoRow
  /\ row.version > 1
  /\ savedDevices = <<"approved", "skipped">>
  /\ row.device_count = 2
  /\ row.completed_device_count = 1
  /\ \E u \in Users :
       /\ req[u].op = "GET" /\ req[u].pc = "done"
       /\ req[u].result.status = 200
       /\ req[u].result.session._version = row.version

----------------------------------------------------------------------------
(* Creation *)

C22_CreateStep ==
  \A u \in Users :
    (req[u].op = "POST" /\ req[u].pc = "create" /\ req'[u].pc = "done") =>
      IF row = NoRow
        THEN /\ req'[u].result.status = 200
             /\ row'.version = 1
             /\ row'.devices = req[u].body.devices
             /\ nextId' = nextId + 1
        ELSE /\ req'[u].result.status = 500
             /\ row' = row
             /\ nextId' = nextId

\* Rows that have been inserted for the session id
C22_OneRow ==
  /\ nextId <= 1
  /\ row # NoRow <=> nextId = 1

\* C22: a create that finds a row with its session_id (two first saves of
\* a new session racing included) fails with an error and changes nothing:
\* one row has been inserted, and it is the row of the create that succeeded.
C22_CreateNeverOverwrites ==
  []C22_OneRow /\ [][C22_CreateStep]_vars

C22_Witness ==
  \E u \in Users :
    /\ req[u].op = "POST" /\ req[u].pc = "done"
    /\ req[u].existing = NoSession
    /\ req[u].result.status = 500
    /\ row # NoRow
    /\ row.version = 1
    /\ row.devices # req[u].body.devices

----------------------------------------------------------------------------
(* Saves and the lock *)

C23_HolderSaveStep ==
  \A u \in Users :
    (/\ req[u].op = "POST" /\ req[u].pc = "update"
     /\ HeldBy(row, u, now)
     /\ req'[u].result.status = 200) =>
      /\ row'.version = row.version + 1
      /\ row'.locked_by = u
      /\ row'.locked_at = now

\* C23: a successful save by the holder of the lock moves the version from
\* v to v + 1 and stamps locked_at with the time of the save.
C23_SaveRefreshesLock ==
  [][C23_HolderSaveStep]_vars

----------------------------------------------------------------------------
(* Handover *)

\* Editor a has saved once (version 1 -> 2), has left the review page and
\* has nothing in flight
SavedAndReleased(a) ==
  /\ row # NoRow
  /\ row.version = 2
  /\ page[a] = "home"
  /\ req[a] = Idle
  /\ patch[a] = "none"

C24_HandoverStep ==
  \A a \in Editors, b \in Users \ Editors :
    (SavedAndReleased(a) /\ req[b].op = "GET" /\ req'[b] # req[b]) =>
      /\ req[b].pc = "get" =>
           /\ req'[b].pc = "locked?"
           /\ req'[b].existing._version = 2
           /\ req'[b].existing.devices = savedDevices
      /\ req[b].pc = "locked?" => req'[b].pc = "lock"
      /\ (req[b].pc = "lock" /\ req[b].existing._version = 2) =>
           /\ row'.locked_by = b
           /\ req'[b].result.status = 200
           /\ req'[b].result.session._version = 2
           /\ req'[b].result.session.devices = savedDevices

\* C24: once editor A has loaded S at version 1, saved an edit (version 2)
\* and released the lock, a load by B reads version 2 and the device array
\* of A's save, is not refused, makes B the lock holder and returns what it
\* read.
C24_NextEditorSeesSave ==
  [][C24_HandoverStep]_vars

C24_Witness ==
  \E a \in Editors, b \in Users \ Editors :
    /\ SavedAndReleased(a)
    /\ row.locked_by = b
    /\ req[b].op = "GET" /\ req[b].pc = "done"
    /\ req[b].result.status = 200
    /\ req[b].result.session._version = 2
    /\ req[b].result.session.devices = savedDevices
    /\ savedDevices # <<"pending">>

----------------------------------------------------------------------------
(* Edits during a save *)

C25_SaveCompletes ==
  \A u \in Users :
    (/\ req[u].op = "POST" /\ req[u].pc = "done" /\ ~req[u].dropped
     /\ req[u].result.status = 200
     /\ req'[u] = Idle
     /\ store[u].session.devices # req[u].body.devices) =>
      /\ store'[u].session.devices = store[u].session.devices
      /\ store'[u].hasUnsavedChanges

\* C25: when a save completes successfully and the local device array has
\* been edited since the save was sent, the local session keeps the edit
\* and hasUnsavedChanges stays true.
C25_EditDuringSaveKept ==
  [][C25_SaveCompletes]_vars

----------------------------------------------------------------------------
(* A single writer *)

C26_NoConflict ==
  \A c \in SoloConns : req[c].result.status # 409

C26_Settled ==
  \A u \in Editors :
    (/\ page[u] = "check"
     /\ store[u].session # NoSession
     /\ \A c \in SoloConns : req[c] = Idle) =>
      store[u].session._version = row.version

\* C26: the only writer of a session gets no 409, overlapping saves of its
\* own included, and once none of its saves is in flight its local version
\* is the stored version.
C26_SoleWriterNeverConflicts ==
  C26_NoConflict /\ C26_Settled

----------------------------------------------------------------------------
(* Loads against saves *)

C27_GrantStep ==
  \A u \in Users :
    LockGranted(u) =>
      /\ row'.locked_by = u
      /\ req'[u].result.session._version = row'.version
      /\ req'[u].result.session.devices = savedDevices'

\* C27: a load answered 200 returns the version and the device array that
\* are stored at the moment its lock is acquired.
C27_LoadIsCurrentAtLock ==
  [][C27_GrantStep]_vars

----------------------------------------------------------------------------
(* Soft-deleted sessions *)

C28_FrozenStep ==
  (row # NoRow /\ row.deleted_at # NoTime) =>
    /\ row' # NoRow =>
         /\ row'.version = row.version
         /\ row'.blob_url = row.blob_url
         /\ row'.device_count = row.device_count
         /\ row'.completed_device_count = row.completed_device_count
         /\ row'.locked_by \in {row.locked_by, NULL}
    /\ \A u \in Users :
         (req'[u] # req[u] /\ req'[u].pc = "done") => req'[u].result.status # 200

\* C28: while deleted_at is set, no step changes the row's version, payload
\* pointer or device counts or gives the lock to anyone, and no save or
\* load of the session is answered 200.
C28_DeletedIsFrozen ==
  [][C28_FrozenStep]_vars

----------------------------------------------------------------------------
(* Days remaining *)

\* Whole days in a number of minutes
WholeDays(minutes) ==
  CHOOSE d \in 0..(MaxDays + 1) :
    d * MinutesPerDay <= minutes /\ minutes < (d + 1) * MinutesPerDay

C29_Reported ==
  \A v \in listDeletedSessions(row, now) :
    /\ v.days_remaining = RetentionDays - WholeDays(now - row.deleted_at)
    /\ ~PastRetention(row, now) =>
         (0 <= v.days_remaining /\ v.days_remaining <= RetentionDays)

C29_Step ==
  \A v \in listDeletedSessions(row, now) :
    /\ v.days_remaining >= 1 => row' # NoRow
    /\ \A w \in listDeletedSessions(row', now') :
         w.days_remaining <= v.days_remaining

\* C29: the days_remaining listed for a soft-deleted session is 14 minus
\* the whole days since deleted_at, does not increase from one moment to
\* the next, is between 0 and 14 as long as the cleanup would not remove
\* the row, and a row listed with days_remaining >= 1 is not removed.
C29_DaysRemaining ==
  []C29_Reported /\ [][C29_Step]_vars

C29_Witness ==
  /\ deletedCount = 0
  /\ \E v \in listDeletedSessions(row, now) :
       /\ v.days_remaining = 1
       /\ now - row.deleted_at > (RetentionDays - 1) * MinutesPerDay

----------------------------------------------------------------------------
(* Conflict reports *)

\* C30: every 409 carries a currentVersion greater than its
\* attemptedVersion, whatever deletes, restores, removals by the cleanup and
\* re-creations of the session_id the save has run among.
C30_ConflictVersionsOrdered ==
  \A u \in Users :
    req[u].result.status = 409 =>
      req[u].result.currentVersion > req[u].result.attemptedVersion

====
